---- MODULE Spec2Model ----
(***************************************************************************)
(* Customer Service API (src/main.py): the per-ticket WebSocket registry   *)
(* (WSManager), the ticket_ws endpoint task, the post_message request and  *)
(* the handlers that take a ticket identifier.                             *)
(*                                                                         *)
(* post_message is a plain `def`: the framework runs it on a worker        *)
(* thread, and every safe_send hands the send to the event loop and waits  *)
(* for it (anyio.from_thread.run).  ticket_ws is a coroutine on the event  *)
(* loop.  The steps of the two therefore interleave at every iteration of  *)
(* the broadcast loop and at every await of ticket_ws.                     *)
(***************************************************************************)
EXTENDS Integers, Sequences, FiniteSets, TLC

\* ------------------------------------------------------------------ bounds
NumConns == 2      \* WebSocket connections opened during a run
NumReqs == 2       \* post_message requests issued during a run
MaxFrames == 1     \* frames the clients send in total during a run
MaxTickets == 1    \* create_ticket requests issued during a run
NumSeeds == 2      \* seed requests issued during a run

\* Length of the hexadecimal form of a bson ObjectId (ObjectId(id_str)).
ObjectIdLen == 24

Conns == 1..NumConns
Reqs == 1..NumReqs
Seeds == 1..NumSeeds

\* ------------------------------------------------------------ identifiers
\* An identifier is a string.  ObjectId() looks at two things of it, its length
\* and whether every character is a hexadecimal digit; they are carried beside
\* the text.
IdA == [chars |-> "aaaaaaaaaaaaaaaaaaaaaaaa", len |-> ObjectIdLen, hex |-> TRUE]
IdB == [chars |-> "bbbbbbbbbbbbbbbbbbbbbbbb", len |-> ObjectIdLen, hex |-> TRUE]
IdShort == [chars |-> "T1", len |-> 2, hex |-> FALSE]
IdNotHex == [chars |-> "zzzzzzzzzzzzzzzzzzzzzzzz", len |-> ObjectIdLen, hex |-> FALSE]
NoId == [chars |-> "", len |-> 0, hex |-> TRUE]

TicketIds == {IdA, IdB}
AnyIds == {IdA, IdB, IdShort, IdNotHex}
\* Identifiers the handlers are called with: a ticket's, and two malformed ones.
PathIds == {IdA, IdShort, IdNotHex}
\* Identifiers connections and posts are made with beside the ticket handlers.
PostIds == {IdA, IdShort}

\* ObjectId(id_str) succeeds on a str of 24 hexadecimal characters.
IsValidObjectId(s) == s.len = ObjectIdLen /\ s.hex

\* oid(id_str): the ObjectId, or HTTP 400 "Invalid ID format".
oid(id_str) ==
    IF IsValidObjectId(id_str)
    THEN [ok |-> TRUE, value |-> [oid |-> id_str]]
    ELSE [ok |-> FALSE, value |-> [oid |-> NoId]]

\* The n-th ObjectId the database hands out, and str() of an ObjectId.
OidHex ==
    <<"000000000000000000000001", "000000000000000000000002",
      "000000000000000000000003", "000000000000000000000004",
      "000000000000000000000005", "000000000000000000000006">>
NewObjectId(n) == [oid |-> [chars |-> OidHex[n], len |-> ObjectIdLen, hex |-> TRUE]]
ObjectIdStr(o) == o.oid

\* ------------------------------------------------------------- documents
Senders == {"a@x.com"}
Contents == {"hello"}
TextFrames == {"ping", "hello"}

\* MessageSchema (src/schemas.py): the body of post_message.
Message(tid, sender, content) ==
    [ticket_id |-> tid, sender_email |-> sender, content |-> content, type |-> "text"]

NoDoc == [_id |-> [oid |-> NoId], ticket_id |-> NoId, sender_email |-> "",
          content |-> "", type |-> "", created_at |-> [datetime |-> 0]]

\* create_document("message", msg): the stored document, with the identifier
\* and the creation time the database layer adds.
create_document(coll, msg) ==
    [_id |-> NewObjectId(Len(coll) + 1), ticket_id |-> msg.ticket_id,
     sender_email |-> msg.sender_email, content |-> msg.content,
     type |-> msg.type, created_at |-> [datetime |-> Len(coll) + 1]]

\* ObjectIdEncoder.encode_doc: "_id" becomes "id" as a string, a datetime
\* becomes its ISO text, every other field is kept.
encode_doc(doc) ==
    [id |-> ObjectIdStr(doc._id), ticket_id |-> doc.ticket_id,
     sender_email |-> doc.sender_email, content |-> doc.content,
     type |-> doc.type, created_at |-> [iso |-> doc.created_at.datetime]]

\* payload = encode_doc(doc); payload["event"] = "new_message"
new_message_payload(doc) ==
    [id |-> encode_doc(doc).id, ticket_id |-> encode_doc(doc).ticket_id,
     sender_email |-> encode_doc(doc).sender_email, content |-> encode_doc(doc).content,
     type |-> encode_doc(doc).type, created_at |-> encode_doc(doc).created_at,
     event |-> "new_message"]

\* The two kinds of frame a client sees: json.dumps(payload) and a raw text.
JsonFrame(payload) == [json |-> payload]
TextFrame(data) == [text |-> data]
IsJson(f) == "json" \in DOMAIN f
IsText(f) == "text" \in DOMAIN f

\* ------------------------------------------------------------- sequences
ToSet(s) == {s[i] : i \in 1..Len(s)}
Count(s, x) == Cardinality({i \in 1..Len(s) : s[i] = x})
FirstIndex(s, x) == CHOOSE i \in 1..Len(s) : s[i] = x /\ \A j \in 1..(i - 1) : s[j] # x
\* list.remove(x): the first occurrence goes.
Remove(s, x) ==
    [i \in 1..(Len(s) - 1) |-> IF i < FirstIndex(s, x) THEN s[i] ELSE s[i + 1]]

\* ------------------------------------------------------------------ state
VARIABLES
    active_connections,  \* WSManager.active_connections: ticket id -> list of handles
    wsPc,                \* per connection: position of its ticket_ws task
    wsTicket,            \* per connection: ticket_id of its endpoint call
    wsData,              \* per connection: the frame received and not yet echoed
    net,                 \* per connection: the client side of the socket
    inbox,               \* per connection: the frames the client was sent
    pmPc,                \* per request: position in post_message
    pmArgs,              \* per request: path ticket_id and body
    pmDoc,               \* per request: doc read back after create_document
    pmIdx,               \* per request: index of the list iterator of the for loop
    pmLive,              \* per request: the loop iterates the registry's list (not the [] default)
    pmResp,              \* per request: HTTP response
    db_message,          \* the "message" collection
    db_ticket,           \* the "ticket" collection: ObjectId string -> fields
    lastResp,            \* response of the last ticket handler, get_messages or seed
    seedPc,              \* per seed request: position in seed
    nframes,             \* frames sent by clients so far
    tracked,             \* history: per ticket, handles added and not removed since
    lastCall,            \* history: last direct WSManager call of the registry harness
    attempted,           \* history: per request, the handles safe_send was called for, in order
    failed,              \* history: per request, the handles whose send raised
    stayed,              \* history: per request, handles registered since its loop began
    pubOrder             \* history: message ids in the order their broadcast loops began

vars == <<active_connections, wsPc, wsTicket, wsData, net, inbox, pmPc, pmArgs, pmDoc,
          pmIdx, pmLive, pmResp, db_message, db_ticket, lastResp, seedPc, nframes, tracked,
          lastCall, attempted, failed, stayed, pubOrder>>

wsVars == <<wsPc, wsTicket, wsData>>
pmVars == <<pmPc, pmArgs, pmDoc, pmIdx, pmLive, pmResp>>
pmHist == <<attempted, failed, stayed, pubOrder>>
restVars == <<db_ticket, lastResp, seedPc>>

NoResp == [code |-> 0, body |-> encode_doc(NoDoc)]
NoArgs == [ticket_id |-> NoId, msg |-> Message(NoId, "", "")]
NoCall == [op |-> "none", ticket_id |-> NoId, ws |-> 0, raised |-> FALSE, before |-> <<>>]
NoLast == [op |-> "none", ticket_id |-> NoId, code |-> 0, seeded |-> 0]

Init ==
    /\ active_connections = <<>>
    /\ wsPc = [h \in Conns |-> "idle"]
    /\ wsTicket = [h \in Conns |-> NoId]
    /\ wsData = [h \in Conns |-> ""]
    /\ net = [h \in Conns |-> "open"]
    /\ inbox = [h \in Conns |-> <<>>]
    /\ pmPc = [r \in Reqs |-> "idle"]
    /\ pmArgs = [r \in Reqs |-> NoArgs]
    /\ pmDoc = [r \in Reqs |-> NoDoc]
    /\ pmIdx = [r \in Reqs |-> 0]
    /\ pmLive = [r \in Reqs |-> FALSE]
    /\ pmResp = [r \in Reqs |-> NoResp]
    /\ db_message = <<>>
    /\ db_ticket = <<>>
    /\ lastResp = NoLast
    /\ seedPc = [k \in Seeds |-> "idle"]
    /\ nframes = 0
    /\ tracked = [t \in AnyIds |-> {}]
    /\ lastCall = NoCall
    /\ attempted = [r \in Reqs |-> <<>>]
    /\ failed = [r \in Reqs |-> {}]
    /\ stayed = [r \in Reqs |-> {}]
    /\ pubOrder = <<>>

\* ------------------------------------------------------------- WSManager
\* active_connections.get(ticket_id, [])
listeners(ac, ticket_id) ==
    IF ticket_id \in DOMAIN ac THEN ac[ticket_id] ELSE <<>>

\* websocket.accept(): completes the handshake of a connection that is still
\* connecting and whose client is there; raises otherwise.
accept_ok(h) == wsPc[h] = "idle" /\ net[h] = "open"

\* WSManager.connect after accept(): setdefault(ticket_id, []).append(websocket)
connect(ac, ticket_id, websocket) ==
    [t \in (DOMAIN ac) \cup {ticket_id} |->
        IF t = ticket_id THEN Append(listeners(ac, ticket_id), websocket) ELSE ac[t]]

\* A disconnect that drops the ticket's whole list instead of the one handle.
disconnect_clear(ac, ticket_id, websocket) ==
    IF websocket \in ToSet(listeners(ac, ticket_id))
    THEN [ac EXCEPT ![ticket_id] = <<>>]
    ELSE ac

\* WSManager.disconnect
disconnect(ac, ticket_id, websocket) ==
    IF websocket \in ToSet(listeners(ac, ticket_id))
    THEN [ac EXCEPT ![ticket_id] = Remove(ac[ticket_id], websocket)]
    ELSE ac

\* WSManager.safe_send: websocket.send_text(json.dumps(data)) run on the event
\* loop; whatever it raises is swallowed.  It raises when the client is gone.
safe_send(ib, websocket, data) ==
    IF net[websocket] = "open"
    THEN [ib EXCEPT ![websocket] = Append(@, JsonFrame(data))]
    ELSE ib

\* An echo that goes to every handle registered with the sender's ticket.
echo_send_all(ib, websocket, data) ==
    [g \in DOMAIN ib |->
        IF g = websocket \/ g \in ToSet(listeners(active_connections, wsTicket[websocket]))
        THEN Append(ib[g], TextFrame(data))
        ELSE ib[g]]

\* websocket.send_text(data) of the echo.
echo_send(ib, websocket, data) ==
    [ib EXCEPT ![websocket] = Append(@, TextFrame(data))]

\* Requests whose broadcast loop is running.
Looping == {r \in Reqs : pmPc[r] = "loop"}

\* --------------------------------------------------------------- clients
\* The client goes away (closes, or the network drops).
ClientClose(h) ==
    /\ net[h] = "open"
    /\ wsPc[h] \in {"idle", "recv", "echo"}
    /\ net' = [net EXCEPT ![h] = "closed"]
    /\ UNCHANGED <<active_connections, wsVars, inbox, pmVars, pmHist, db_message,
                   restVars, nframes, tracked, lastCall>>

\* The client stops reading: a send to it no longer completes.
ClientStall(h) ==
    /\ net[h] = "open"
    /\ wsPc[h] \in {"recv", "echo"}
    /\ net' = [net EXCEPT ![h] = "stalled"]
    /\ UNCHANGED <<active_connections, wsVars, inbox, pmVars, pmHist, db_message,
                   restVars, nframes, tracked, lastCall>>

\* ------------------------------------------------------------- ticket_ws
\* await _ws_manager.connect(ticket_id, websocket)
WsConnect(h, t) ==
    /\ wsPc[h] = "idle"
    /\ \A g \in Conns : g < h => wsPc[g] # "idle"
    /\ IF accept_ok(h)
       THEN /\ active_connections' = connect(active_connections, t, h)
            /\ tracked' = [tracked EXCEPT ![t] = @ \cup {h}]
            /\ wsPc' = [wsPc EXCEPT ![h] = "recv"]
       ELSE /\ wsPc' = [wsPc EXCEPT ![h] = "rejected"]
            /\ UNCHANGED <<active_connections, tracked>>
    /\ wsTicket' = [wsTicket EXCEPT ![h] = t]
    /\ UNCHANGED <<wsData, net, inbox, pmVars, pmHist, db_message, restVars, nframes,
                   lastCall>>

\* data = await websocket.receive_text(), a text frame arriving
WsRecvText(h, data) ==
    /\ wsPc[h] = "recv"
    /\ net[h] = "open"
    /\ nframes < MaxFrames
    /\ nframes' = nframes + 1
    /\ wsPc' = [wsPc EXCEPT ![h] = "echo"]
    /\ wsData' = [wsData EXCEPT ![h] = data]
    /\ UNCHANGED <<active_connections, wsTicket, net, inbox, pmVars, pmHist, db_message,
                   restVars, tracked, lastCall>>

\* receive_text() on a binary frame: message["text"] is missing and the task
\* ends with an error that is not WebSocketDisconnect; the server then closes
\* the socket.  disconnect is not called.
WsRecvBinary(h) ==
    /\ wsPc[h] = "recv"
    /\ net[h] = "open"
    /\ nframes < MaxFrames
    /\ nframes' = nframes + 1
    /\ wsPc' = [wsPc EXCEPT ![h] = "crashed"]
    /\ net' = [net EXCEPT ![h] = "closed"]
    /\ UNCHANGED <<active_connections, wsTicket, wsData, inbox, pmVars, pmHist,
                   db_message, restVars, tracked, lastCall>>

\* receive_text() raising WebSocketDisconnect: the except clause calls disconnect.
WsDisconnect(h) ==
    /\ wsPc[h] = "recv"
    /\ net[h] = "closed"
    /\ active_connections' = disconnect(active_connections, wsTicket[h], h)
    /\ tracked' = [tracked EXCEPT ![wsTicket[h]] = @ \ {h}]
    /\ stayed' = [r \in Reqs |-> IF r \in Looping THEN stayed[r] \ {h} ELSE stayed[r]]
    /\ wsPc' = [wsPc EXCEPT ![h] = "closed"]
    /\ UNCHANGED <<wsTicket, wsData, net, inbox, pmVars, attempted, failed, pubOrder,
                   db_message, restVars, nframes, lastCall>>

\* await websocket.send_text(data): the echo
WsEcho(h) ==
    /\ wsPc[h] = "echo"
    /\ net[h] = "open"
    /\ inbox' = echo_send(inbox, h, wsData[h])
    /\ wsPc' = [wsPc EXCEPT ![h] = "recv"]
    /\ wsData' = [wsData EXCEPT ![h] = ""]
    /\ UNCHANGED <<active_connections, wsTicket, net, pmVars, pmHist, db_message,
                   restVars, nframes, tracked, lastCall>>

\* The echo to a client that is gone: send_text raises.  Whether the error is
\* a WebSocketDisconnect (caught: disconnect runs) or another one (the task
\* ends without disconnect) depends on the server library.
WsEchoFail(h, caught) ==
    /\ wsPc[h] = "echo"
    /\ net[h] = "closed"
    /\ wsData' = [wsData EXCEPT ![h] = ""]
    /\ IF caught
       THEN /\ active_connections' = disconnect(active_connections, wsTicket[h], h)
            /\ tracked' = [tracked EXCEPT ![wsTicket[h]] = @ \ {h}]
            /\ stayed' = [r \in Reqs |-> IF r \in Looping THEN stayed[r] \ {h} ELSE stayed[r]]
            /\ wsPc' = [wsPc EXCEPT ![h] = "closed"]
       ELSE /\ wsPc' = [wsPc EXCEPT ![h] = "crashed"]
            /\ UNCHANGED <<active_connections, tracked, stayed>>
    /\ UNCHANGED <<wsTicket, net, inbox, pmVars, attempted, failed, pubOrder, db_message,
                   restVars, nframes, lastCall>>

\* ---------------------------------------------------------- post_message
\* A post_message without the mismatch check.
ticket_id_mismatch_off(ticket_id, msg) == FALSE

\* if msg.ticket_id != ticket_id
ticket_id_mismatch(ticket_id, msg) == msg.ticket_id # ticket_id

\* Entry of post_message: the mismatch check, then create_document and the
\* read of the stored document.
PmCall(r, ticket_id, msg) ==
    /\ pmPc[r] = "idle"
    /\ \A q \in Reqs : q < r => pmPc[q] # "idle"
    /\ pmArgs' = [pmArgs EXCEPT ![r] = [ticket_id |-> ticket_id, msg |-> msg]]
    /\ IF ticket_id_mismatch(ticket_id, msg)
       THEN /\ pmPc' = [pmPc EXCEPT ![r] = "done"]
            /\ pmResp' = [pmResp EXCEPT ![r] = [code |-> 400, body |-> encode_doc(NoDoc)]]
            /\ UNCHANGED <<db_message, pmDoc>>
       ELSE /\ db_message' = Append(db_message, create_document(db_message, msg))
            /\ pmDoc' = [pmDoc EXCEPT ![r] = create_document(db_message, msg)]
            /\ pmPc' = [pmPc EXCEPT ![r] = "persisted"]
            /\ UNCHANGED pmResp
    /\ UNCHANGED <<active_connections, wsVars, net, inbox, pmIdx, pmLive, pmHist,
                   restVars, nframes, tracked, lastCall>>

\* for ws in _ws_manager.active_connections.get(ticket_id, []): the iterator
\* is made over the registry's list, or over a fresh [] when the key is absent.
PmLoopStart(r) ==
    /\ pmPc[r] = "persisted"
    /\ pmPc' = [pmPc EXCEPT ![r] = "loop"]
    /\ pmIdx' = [pmIdx EXCEPT ![r] = 0]
    /\ pmLive' = [pmLive EXCEPT ![r] = pmArgs[r].ticket_id \in DOMAIN active_connections]
    /\ stayed' = [stayed EXCEPT ![r] = ToSet(listeners(active_connections, pmArgs[r].ticket_id))]
    /\ pubOrder' = Append(pubOrder, pmDoc[r]._id)
    /\ UNCHANGED <<active_connections, wsVars, net, inbox, pmArgs, pmDoc, pmResp,
                   attempted, failed, db_message, restVars, nframes, tracked, lastCall>>

\* A broadcast loop that walks the handles of every ticket.
pm_list_all(r) == listeners(active_connections, IdA) \o listeners(active_connections, IdB)

\* The list the iterator of request r walks.
pm_list(r) == IF pmLive[r] THEN active_connections[pmArgs[r].ticket_id] ELSE <<>>

\* One iteration: the list iterator yields list[index] while index < len(list),
\* and the body sends to it.  The worker thread waits for the send.
PmSend(r) ==
    /\ pmPc[r] = "loop"
    /\ pmIdx[r] < Len(pm_list(r))
    /\ net[pm_list(r)[pmIdx[r] + 1]] # "stalled"
    /\ pmIdx' = [pmIdx EXCEPT ![r] = @ + 1]
    /\ inbox' = safe_send(inbox, pm_list(r)[pmIdx[r] + 1], new_message_payload(pmDoc[r]))
    /\ attempted' = [attempted EXCEPT ![r] = Append(@, pm_list(r)[pmIdx[r] + 1])]
    /\ failed' = [failed EXCEPT ![r] =
                    IF net[pm_list(r)[pmIdx[r] + 1]] = "open" THEN @
                    ELSE @ \cup {pm_list(r)[pmIdx[r] + 1]}]
    /\ UNCHANGED <<active_connections, wsVars, net, pmPc, pmArgs, pmDoc, pmLive, pmResp,
                   stayed, pubOrder, db_message, restVars, nframes, tracked, lastCall>>

\* The iterator is exhausted: return ObjectIdEncoder.encode_doc(doc)
PmReturn(r) ==
    /\ pmPc[r] = "loop"
    /\ pmIdx[r] >= Len(pm_list(r))
    /\ pmPc' = [pmPc EXCEPT ![r] = "done"]
    /\ pmResp' = [pmResp EXCEPT ![r] = [code |-> 200, body |-> encode_doc(pmDoc[r])]]
    /\ UNCHANGED <<active_connections, wsVars, net, inbox, pmArgs, pmDoc, pmIdx, pmLive,
                   pmHist, db_message, restVars, nframes, tracked, lastCall>>

\* --------------------------------------------- handlers taking a ticket id
\* TicketSchema (src/schemas.py), with its defaults.
None == "None"
Ticket(title, description, priority, customer_email) ==
    [title |-> title, description |-> description, status |-> "open",
     priority |-> priority, customer_email |-> customer_email, assigned_to |-> None]
NewTickets == {Ticket("t", "d", "medium", "customer@example.com")}
\* The ticket seed() inserts.
DemoTicket ==
    Ticket("Demo issue", "My app is not loading.", "high", "customer@example.com")

\* The reading of the clock (datetime.now) at an update, after the creation time 0.
Times == {1}

\* The n-th ObjectId the "ticket" collection hands out.
TicketOids ==
    <<IdA, IdB,
      [chars |-> "cccccccccccccccccccccccc", len |-> ObjectIdLen, hex |-> TRUE],
      [chars |-> "dddddddddddddddddddddddd", len |-> ObjectIdLen, hex |-> TRUE],
      [chars |-> "eeeeeeeeeeeeeeeeeeeeeeee", len |-> ObjectIdLen, hex |-> TRUE],
      [chars |-> "ffffffffffffffffffffffff", len |-> ObjectIdLen, hex |-> TRUE]>>
\* db["ticket"].count_documents({})
NumTickets == Cardinality(DOMAIN db_ticket)
\* Documents stored by create_ticket so far.
NumCreated == Cardinality({t \in DOMAIN db_ticket : db_ticket[t].title # DemoTicket.title})
NewTicketId == TicketOids[NumTickets + 1]

\* create_document("ticket", ticket): the collection with the new document,
\* its fields and the timestamps the database layer adds.
create_ticket_document(coll, ticket) ==
    [t \in (DOMAIN coll) \cup {TicketOids[Cardinality(DOMAIN coll) + 1]} |->
        IF t \in DOMAIN coll THEN coll[t]
        ELSE [title |-> ticket.title, description |-> ticket.description,
              status |-> ticket.status, priority |-> ticket.priority,
              customer_email |-> ticket.customer_email,
              assigned_to |-> ticket.assigned_to,
              created_at |-> [datetime |-> 0], updated_at |-> [datetime |-> 0]]]

\* TicketUpdate payloads: the fields that are not None.
NoUpdates == [status |-> "none"]
TicketUpdates == {NoUpdates, [status |-> "closed"]}
updates_of(payload) == IF payload.status = "none" THEN {} ELSE {"status"}

\* create_ticket: the document is stored and read back.
CreateTicket(ticket) ==
    /\ NumCreated < MaxTickets
    /\ db_ticket' = create_ticket_document(db_ticket, ticket)
    /\ lastResp' = [op |-> "create_ticket", ticket_id |-> NewTicketId, code |-> 200, seeded |-> 0]
    /\ UNCHANGED <<active_connections, wsVars, net, inbox, pmVars, pmHist, db_message,
                   nframes, tracked, lastCall, seedPc>>

\* seed, its "ticket" half (its "faq" half writes only the "faq" collection,
\* which is not part of the state): count_documents({}) is one database call;
\* when the collection is not empty the request returns {"ticket": 0}.
SeedCount(k) ==
    /\ seedPc[k] = "idle"
    /\ \A q \in Seeds : q < k => seedPc[q] # "idle"
    /\ IF NumTickets = 0
       THEN /\ seedPc' = [seedPc EXCEPT ![k] = "insert"]
            /\ UNCHANGED lastResp
       ELSE /\ seedPc' = [seedPc EXCEPT ![k] = "done"]
            /\ lastResp' = [op |-> "seed", ticket_id |-> NoId, code |-> 200, seeded |-> 0]
    /\ UNCHANGED <<active_connections, wsVars, net, inbox, pmVars, pmHist, db_message,
                   db_ticket, nframes, tracked, lastCall>>

\* seed after a count of 0: create_document("ticket", t) is a later database
\* call, whatever the collection holds by then; the request returns {"ticket": 1}.
SeedInsert(k) ==
    /\ seedPc[k] = "insert"
    /\ seedPc' = [seedPc EXCEPT ![k] = "done"]
    /\ db_ticket' = create_ticket_document(db_ticket, DemoTicket)
    /\ lastResp' = [op |-> "seed", ticket_id |-> NoId, code |-> 200, seeded |-> 1]
    /\ UNCHANGED <<active_connections, wsVars, net, inbox, pmVars, pmHist, db_message,
                   nframes, tracked, lastCall>>

\* get_ticket
GetTicket(ticket_id) ==
    /\ lastResp' = [op |-> "get_ticket", ticket_id |-> ticket_id,
                    code |-> IF ~oid(ticket_id).ok THEN 400
                             ELSE IF oid(ticket_id).value.oid \notin DOMAIN db_ticket THEN 404
                             ELSE 200,
                    seeded |-> 0]
    /\ UNCHANGED <<active_connections, wsVars, net, inbox, pmVars, pmHist, db_message,
                   db_ticket, nframes, tracked, lastCall, seedPc>>

\* update_ticket: an empty update returns {"updated": False} before oid() is
\* reached; otherwise updated_at is added to the updates, then oid(),
\* update_one and the 404 on no match.
UpdateTicket(ticket_id, payload, now) ==
    /\ IF updates_of(payload) = {}
       THEN /\ lastResp' = [op |-> "update_ticket", ticket_id |-> ticket_id, code |-> 200, seeded |-> 0]
            /\ UNCHANGED db_ticket
       ELSE IF ~oid(ticket_id).ok
       THEN /\ lastResp' = [op |-> "update_ticket", ticket_id |-> ticket_id, code |-> 400, seeded |-> 0]
            /\ UNCHANGED db_ticket
       ELSE IF oid(ticket_id).value.oid \notin DOMAIN db_ticket
       THEN /\ lastResp' = [op |-> "update_ticket", ticket_id |-> ticket_id, code |-> 404, seeded |-> 0]
            /\ UNCHANGED db_ticket
       ELSE /\ lastResp' = [op |-> "update_ticket", ticket_id |-> ticket_id, code |-> 200, seeded |-> 0]
            /\ db_ticket' = [db_ticket EXCEPT
                               ![oid(ticket_id).value.oid].status = payload.status,
                               ![oid(ticket_id).value.oid].updated_at = [datetime |-> now]]
    /\ UNCHANGED <<active_connections, wsVars, net, inbox, pmVars, pmHist, db_message,
                   nframes, tracked, lastCall, seedPc>>

\* get_messages: a find by the ticket_id string; oid() is not called.
GetMessages(ticket_id) ==
    /\ lastResp' = [op |-> "get_messages", ticket_id |-> ticket_id, code |-> 200, seeded |-> 0]
    /\ UNCHANGED <<active_connections, wsVars, net, inbox, pmVars, pmHist, db_message,
                   db_ticket, nframes, tracked, lastCall, seedPc>>

\* ------------------------------------------------- WSManager called directly
\* connect(ticket_id, websocket) on any handle: accept() raises on a handle
\* that is not connecting any more, and nothing is registered.
RegConnect(t, h) ==
    /\ lastCall' = [op |-> "connect", ticket_id |-> t, ws |-> h,
                    raised |-> ~accept_ok(h), before |-> active_connections]
    /\ IF accept_ok(h)
       THEN /\ active_connections' = connect(active_connections, t, h)
            /\ tracked' = [tracked EXCEPT ![t] = @ \cup {h}]
            /\ wsPc' = [wsPc EXCEPT ![h] = "recv"]
            /\ wsTicket' = [wsTicket EXCEPT ![h] = t]
       ELSE UNCHANGED <<active_connections, tracked, wsPc, wsTicket>>
    /\ UNCHANGED <<wsData, net, inbox, pmVars, pmHist, db_message, restVars, nframes>>

\* disconnect(ticket_id, websocket) on any ticket and handle.
RegDisconnect(t, h) ==
    /\ lastCall' = [op |-> "disconnect", ticket_id |-> t, ws |-> h,
                    raised |-> FALSE, before |-> active_connections]
    /\ active_connections' = disconnect(active_connections, t, h)
    /\ tracked' = [tracked EXCEPT ![t] = @ \ {h}]
    /\ UNCHANGED <<wsVars, net, inbox, pmVars, pmHist, db_message, restVars, nframes>>

\* ------------------------------------------------------------------ specs
\* The broadcast subsystem: clients, ticket_ws tasks and post_message requests.
Next ==
    \/ \E h \in Conns : ClientClose(h)
    \/ \E h \in Conns : ClientStall(h)
    \/ \E h \in Conns, t \in TicketIds : WsConnect(h, t)
    \/ \E h \in Conns, d \in TextFrames : WsRecvText(h, d)
    \/ \E h \in Conns : WsRecvBinary(h)
    \/ \E h \in Conns : WsDisconnect(h)
    \/ \E h \in Conns : WsEcho(h)
    \/ \E h \in Conns, caught \in BOOLEAN : WsEchoFail(h, caught)
    \/ \E r \in Reqs, t \in TicketIds, b \in TicketIds, s \in Senders, c \in Contents :
          PmCall(r, t, Message(b, s, c))
    \/ \E r \in Reqs : PmLoopStart(r)
    \/ \E r \in Reqs : PmSend(r)
    \/ \E r \in Reqs : PmReturn(r)

Spec == Init /\ [][Next]_vars

\* The worker thread of a request keeps running, and the event loop runs the
\* sends handed to it.
FairSpec ==
    /\ Spec
    /\ \A r \in Reqs : WF_vars(PmLoopStart(r)) /\ WF_vars(PmSend(r)) /\ WF_vars(PmReturn(r))

\* Every path that takes a ticket identifier, called with any string.
RestNext ==
    \/ \E t \in PathIds : GetTicket(t)
    \/ \E k \in NewTickets : CreateTicket(k)
    \/ \E k \in Seeds : SeedCount(k)
    \/ \E k \in Seeds : SeedInsert(k)
    \/ \E t \in PathIds, p \in TicketUpdates, now \in Times : UpdateTicket(t, p, now)
    \/ \E t \in PathIds : GetMessages(t)
    \/ \E h \in Conns, t \in PostIds : WsConnect(h, t)
    \/ \E r \in Reqs, t \in PostIds, s \in Senders, c \in Contents :
          PmCall(r, t, Message(t, s, c))
    \/ \E r \in Reqs : PmLoopStart(r)
    \/ \E r \in Reqs : PmSend(r)
    \/ \E r \in Reqs : PmReturn(r)

RestSpec == Init /\ [][RestNext]_vars

\* The registry driven directly by any sequence of connect and disconnect calls.
RegNext ==
    \/ \E t \in TicketIds, h \in Conns : RegConnect(t, h)
    \/ \E t \in TicketIds, h \in Conns : RegDisconnect(t, h)

RegSpec == Init /\ [][RegNext]_vars

\* ----------------------------------------------------------------- claims
Delivered(h, r) == JsonFrame(new_message_payload(pmDoc[r])) \in ToSet(inbox[h])
Returned(r) == pmPc[r] = "done" /\ pmResp[r].code = 200
Rejected(r) == pmPc[r] = "done" /\ pmResp[r].code = 400
Registered(h) == h \in ToSet(listeners(active_connections, wsTicket[h]))

\* C1: when a request has published and the send to one listener failed, every
\* other listener that stayed subscribed for the whole publish has received the
\* notification, and the request returned the persisted document.
C1_FailureIsolated ==
    \A r \in Reqs :
        (Returned(r) /\ failed[r] # {}) =>
            /\ pmResp[r].body = encode_doc(pmDoc[r])
            /\ \A h \in stayed[r] \ failed[r] : Delivered(h, r)

\* C2: a notification reaches a listener only while it is registered, and only
\* for a message of the ticket it is registered with.
C2_OnlyOwnTicketWhileSubscribed ==
    [][\A h \in Conns :
          (Len(inbox'[h]) > Len(inbox[h]) /\ IsJson(inbox'[h][Len(inbox'[h])])) =>
              /\ inbox'[h][Len(inbox'[h])].json.ticket_id = wsTicket[h]
              /\ Registered(h)
              /\ wsPc[h] \notin {"idle", "rejected", "closed"}]_vars

\* A message was published on one ticket and reached its listener, while a
\* listener of the other ticket, and a listener that had left, got nothing.
C2_Witness ==
    \E r \in Reqs, h \in Conns, g \in Conns :
        /\ Returned(r) /\ Delivered(h, r)
        /\ g # h /\ inbox[g] = <<>>
        /\ \/ (Registered(g) /\ wsTicket[g] # wsTicket[h])
           \/ (wsPc[g] = "closed" /\ wsTicket[g] = wsTicket[h])

\* C3: after any sequence of connect and disconnect calls, each ticket's list
\* holds exactly the handles added and not removed since, each once; a
\* disconnect of a handle absent from the ticket's list changes nothing and
\* raises nothing.
C3_RegistryTracksCalls ==
    /\ \A t \in AnyIds :
          /\ ToSet(listeners(active_connections, t)) = tracked[t]
          /\ Len(listeners(active_connections, t)) = Cardinality(tracked[t])
    /\ (lastCall.op = "disconnect"
        /\ lastCall.ws \notin ToSet(listeners(lastCall.before, lastCall.ticket_id))) =>
          (active_connections = lastCall.before /\ ~lastCall.raised)

\* A disconnect of an absent handle, on a registry that holds another handle
\* and has seen a removal.
C3_Witness ==
    /\ lastCall.op = "disconnect"
    /\ lastCall.ws \notin ToSet(listeners(lastCall.before, lastCall.ticket_id))
    /\ \E t \in TicketIds : tracked[t] # {}
    /\ \E h \in Conns : wsPc[h] = "recv" /\ ~Registered(h)

\* C4: no handle whose ticket_ws task has ended remains in active_connections.
C4_EndedTaskUnregistered ==
    \A h \in Conns : wsPc[h] \in {"closed", "crashed"} => ~Registered(h)

\* C5: of two messages of a ticket persisted and published in the order E1, E2,
\* no listener observes E2 before E1.
PersistedBefore(a, b) == a.created_at.iso < b.created_at.iso
PublishedBefore(a, b) ==
    FirstIndex(pubOrder, [oid |-> a.id]) < FirstIndex(pubOrder, [oid |-> b.id])
C5_PublishOrderObserved ==
    \A h \in Conns : \A i, j \in 1..Len(inbox[h]) :
        (i < j /\ IsJson(inbox[h][i]) /\ IsJson(inbox[h][j])) =>
            ~(/\ PersistedBefore(inbox[h][j].json, inbox[h][i].json)
              /\ PublishedBefore(inbox[h][j].json, inbox[h][i].json))

\* C6: a ticket identifier that is not a valid ObjectId is answered with 400 on
\* every path, and nothing is stored or registered under it.
C6_InvalidIdRejected ==
    /\ \A t \in DOMAIN active_connections : IsValidObjectId(t)
    /\ \A i \in 1..Len(db_message) : IsValidObjectId(db_message[i].ticket_id)
    /\ \A r \in Reqs :
          (pmPc[r] # "idle" /\ ~IsValidObjectId(pmArgs[r].ticket_id)) => Rejected(r)
    /\ (lastResp.op \in {"get_ticket", "update_ticket", "get_messages"}
        /\ ~IsValidObjectId(lastResp.ticket_id)) => lastResp.code = 400

\* C7: a post_message whose body names another ticket than the path ends at
\* once with 400, stores no message and notifies nobody.
C7_MismatchRejected ==
    [][\A r \in Reqs :
          (pmPc[r] = "idle" /\ pmPc'[r] # "idle"
           /\ pmArgs'[r].msg.ticket_id # pmArgs'[r].ticket_id) =>
              /\ Rejected(r)'
              /\ db_message' = db_message
              /\ inbox' = inbox
              /\ attempted'[r] = <<>>]_vars

\* A mismatched request was rejected while both tickets had a listener.
C7_Witness ==
    \E r \in Reqs :
        /\ Rejected(r)
        /\ pmArgs[r].msg.ticket_id # pmArgs[r].ticket_id
        /\ \E h \in Conns : Registered(h) /\ wsTicket[h] = pmArgs[r].ticket_id
        /\ \E h \in Conns : Registered(h) /\ wsTicket[h] = pmArgs[r].msg.ticket_id

\* C8: a text frame received on a connection is sent back unchanged to that
\* connection alone; receiving and echoing it stores no message and sends
\* nothing to any other connection.
C8_EchoOnlyToSender ==
    [][\A h \in Conns :
          /\ (wsPc[h] = "recv" /\ wsPc'[h] = "echo") =>
                (inbox' = inbox /\ db_message' = db_message)
          /\ (wsPc[h] = "echo" /\ wsPc'[h] = "recv") =>
                /\ inbox'[h] = Append(inbox[h], TextFrame(wsData[h]))
                /\ \A g \in Conns \ {h} : inbox'[g] = inbox[g]
                /\ db_message' = db_message]_vars

\* A frame was echoed to its sender while another listener of the same ticket
\* was registered.
C8_Witness ==
    \E h \in Conns, g \in Conns :
        /\ g # h /\ Registered(g) /\ Registered(h) /\ wsTicket[g] = wsTicket[h]
        /\ \E i \in 1..Len(inbox[h]) : IsText(inbox[h][i])
        /\ \A i \in 1..Len(inbox[g]) : ~IsText(inbox[g][i])

\* C9: a request that has published made exactly one delivery attempt for
\* every listener that stayed subscribed for the whole publish.
C9_OneAttemptPerListener ==
    \A r \in Reqs :
        Returned(r) => \A h \in stayed[r] : Count(attempted[r], h) = 1

\* C10: a request that has persisted its message eventually returns.
C10_PublishReturns ==
    \A r \in Reqs : (pmPc[r] = "persisted") ~> (pmPc[r] = "done")

====
